---- MODULE Spec2Model ----
(***************************************************************************)
(* fix_csv_paths.py: read public/sample-alumni.csv with csv.DictReader,    *)
(* rewrite every row's photo_file to '/photos/<relative path>' (or clear   *)
(* it), write the rows to public/sample-alumni-fixed.csv with              *)
(* csv.DictWriter and print two status lines.                              *)
(*                                                                         *)
(* Text values are sequences of one-character strings, so that strip(),    *)
(* the 'in' test and the regular expression are computed character by      *)
(* character.  Python's None is the value None below, which is no text.    *)
(***************************************************************************)
EXTENDS Integers, Sequences, FiniteSets

VARIABLES
    inputOk,    \* whether open(input_file, 'r') succeeds
    inFile,     \* the input's data lines after the header, as csv.reader yields them
    outFile,    \* output_file on disk: its header line and its records
    outfile,    \* the handle of the write pass: "unopened", "open" or "closed"
    rows,       \* the list `rows`
    pc,         \* position of the script
    idx,        \* position of a loop over rows (the for loop, then writerows)
    console,    \* what print() has written
    raw,        \* normalizer alone: the raw photo_file value
    fixed,      \* normalizer alone: row['photo_file'] after the loop body ran on raw
    refixed,    \* normalizer alone: row['photo_file'] after it ran on fixed
    passes      \* normalizer alone: how many times the loop body has run

vars == <<inputOk, inFile, outFile, outfile, rows, pc, idx, console,
          raw, fixed, refixed, passes>>

pipeVars == <<inputOk, inFile, outFile, outfile, rows, pc, idx, console>>
normVars == <<raw, fixed, refixed, passes>>

-----------------------------------------------------------------------------
(* Bounds *)

MaxWrap == 2
MaxCore == 2
MaxRows == 2

-----------------------------------------------------------------------------
(* Text *)

None == <<"None">>

SP == " "
LF == "\n"
SQ == "'"
DQ == "\""

\* the whitespace characters of the model, among those str.strip() removes
Whitespace == {SP, LF, "\t", "\r"}

MARKER == <<"/", "p", "h", "o", "t", "o", "s", "/">>

SetMin(S) == CHOOSE x \in S : \A y \in S : x <= y
SetMax(S) == CHOOSE x \in S : \A y \in S : x >= y

\* str.strip(chars): drop every leading and trailing character that is in chars
Strip(s, chars) ==
    LET keep == {k \in 1..Len(s) : s[k] \notin chars}
    IN  IF keep = {} THEN <<>> ELSE SubSeq(s, SetMin(keep), SetMax(keep))

\* sub occurs in s at position i
OccursAt(s, sub, i) ==
    /\ i >= 1
    /\ i + Len(sub) - 1 <= Len(s)
    /\ SubSeq(s, i, i + Len(sub) - 1) = sub

\* sub in s
Contains(s, sub) == \E i \in 1..Len(s) : OccursAt(s, sub, i)

\* '$' without re.MULTILINE, after the character at position e: the end of the
\* string, or just before a line feed that ends the string
DollarAfter(s, e) ==
    \/ e = Len(s)
    \/ e = Len(s) - 1 /\ s[Len(s)] = LF

\* the positions where group 1 can end when '/photos/' is matched at i:
\* '.+' takes one or more characters, none a line feed, and '$' must follow
GroupEnds(s, i) ==
    {e \in (i + Len(MARKER))..Len(s) :
        /\ \A k \in (i + Len(MARKER))..e : s[k] # LF
        /\ DollarAfter(s, e)}

\* Mutant of ReSearch: the pattern r'/photos/(.*)$', whose group may be empty
ReSearchStar(s) ==
    LET ends(i) == {e \in (i + Len(MARKER) - 1)..Len(s) :
                       /\ \A k \in (i + Len(MARKER))..e : s[k] # LF
                       /\ DollarAfter(s, e)}
        starts == {i \in 1..Len(s) : OccursAt(s, MARKER, i) /\ ends(i) # {}}
    IN  IF starts = {} THEN None
        ELSE LET i == SetMin(starts)
             IN  SubSeq(s, i + Len(MARKER), SetMax(ends(i)))

\* re.search(r'/photos/(.+)$', s): the leftmost position where the pattern
\* matches, '.+' greedy; the value is match.group(1), or None
ReSearch(s) ==
    LET starts == {i \in 1..Len(s) : OccursAt(s, MARKER, i) /\ GroupEnds(s, i) # {}}
    IN  IF starts = {} THEN None
        ELSE LET i == SetMin(starts)
             IN  SubSeq(s, i + Len(MARKER), SetMax(GroupEnds(s, i)))

\* photo_path after line 17
Trimmed(v) == Strip(Strip(Strip(v, Whitespace), {SQ}), {DQ})

\* Mutant of NormalizePhoto: the elif branch is missing, so a value without
\* '/photos/' is kept as it is
NormalizePhotoKeep(v) ==
    LET photo_path == Trimmed(v)
    IN  IF photo_path # <<>> /\ Contains(photo_path, MARKER)
        THEN LET match == ReSearch(photo_path)
             IN  IF match # None THEN MARKER \o match ELSE <<>>
        ELSE v

\* the body of the for loop: the value of row['photo_file'] after it, given the
\* value v before it (a text)
NormalizePhoto(v) ==
    LET photo_path == Trimmed(v)
    IN  IF photo_path # <<>> /\ Contains(photo_path, MARKER)
        THEN LET match == ReSearch(photo_path)
             IN  IF match # None THEN MARKER \o match ELSE <<>>
        ELSE IF photo_path # <<>> THEN <<>>
        ELSE v

-----------------------------------------------------------------------------
(* Sample texts and bounded sets of sequences *)

FOO == <<"f", "o", "o", "/", "b", "a", "r", ".", "j", "p", "g">>
JANE == <<"p", "h", "o", "t", "o", "s", "/", "j", "a", "n", "e", ".", "p", "n", "g">>

SeqsUpTo(S, n) == UNION {[1..k -> S] : k \in 0..n}

RECURSIVE Flatten(_)
Flatten(ss) == IF ss = <<>> THEN <<>> ELSE Head(ss) \o Flatten(Tail(ss))

-----------------------------------------------------------------------------
(* The table pipeline *)

\* fieldnames of the DictWriter; the input's header row is the same list
fieldnames ==
    <<"first_name", "middle_name", "last_name", "class_role", "grad_year",
      "grad_date", "photo_file">>

NumFields == Len(fieldnames)
FieldSet == {fieldnames[k] : k \in 1..NumFields}
FieldPos(name) == CHOOSE k \in 1..NumFields : fieldnames[k] = name

\* DictReader's restkey: the key of the fields a long row has beyond the header
RestKey == "(restkey None)"

\* the dict DictReader makes of one non-empty row: missing fields are None
\* (restval), surplus fields are a list under restkey
DictRow(line) ==
    [key \in FieldSet \cup (IF Len(line) > NumFields THEN {RestKey} ELSE {}) |->
        IF key = RestKey THEN SubSeq(line, NumFields + 1, Len(line))
        ELSE IF FieldPos(key) <= Len(line) THEN line[FieldPos(key)]
        ELSE None]

\* Mutant of DictReader: the first data line is taken for a second header
DictReaderSkipFirst(lines) ==
    LET kept == SelectSeq(lines, LAMBDA l : l # <<>>)
    IN  [k \in 1..(Len(kept) - 1) |-> DictRow(kept[k + 1])]

\* list(csv.DictReader(infile)): rows without any field (blank lines) are skipped
DictReader(lines) ==
    LET kept == SelectSeq(lines, LAMBDA l : l # <<>>)
    IN  [k \in 1..Len(kept) |-> DictRow(kept[k])]

\* Mutant of FixedRow: the row is rebuilt with first_name and photo_file only
FixedRowClobber(row) ==
    [key \in DOMAIN row |->
        IF key = "photo_file" THEN NormalizePhoto(row[key])
        ELSE IF key = "first_name" THEN row[key]
        ELSE IF key \in FieldSet THEN <<>>
        ELSE row[key]]

\* the row after the body of the for loop (row['photo_file'] is a text)
FixedRow(row) == [row EXCEPT !["photo_file"] = NormalizePhoto(@)]

\* Mutant of WrongFields: extrasaction='ignore'
WrongFieldsIgnored(row) == {}

\* DictWriter._dict_to_list: the keys of the row that are no fieldnames
\* (extrasaction='raise' raises ValueError when there are any)
WrongFields(row) == DOMAIN row \ FieldSet

\* the csv writer writes None as the empty text
WriteField(v) == IF v = None THEN <<>> ELSE v

\* the record written for a row: its values in the order of fieldnames
DictToList(row) == [k \in 1..NumFields |-> WriteField(row[fieldnames[k]])]

\* the output file: its header line (<<>> when there is none) and its records
EmptyFile == [header |-> <<>>, records |-> <<>>]

\* what output_file holds before the run (a previous run's result)
PriorOutput ==
    [header |-> fieldnames,
     records |-> << <<<<"O">>, <<>>, <<"L", "d">>, <<>>, <<"1">>, <<>>, <<>>>> >>]

\* the input lines of the model: the first k fields of a line of eight
Names == {<<"A", "n", "n">>, <<"B", "o", "b">>}
PhotoSamples ==
    {<<>>, <<SP>>, <<SP, SQ>> \o MARKER \o <<"a", SQ>>, JANE}
FullLine(name, photo) ==
    <<name, <<"Q">>, <<"L", "e", "e">>, <<"S", "r">>, <<"2", "0">>, <<"M", "a", "y">>,
      photo, <<"x">>>>
Lines ==
    {SubSeq(FullLine(n, p), 1, k) :
        n \in Names, p \in PhotoSamples, k \in 0..(NumFields + 1)}

Init ==
    /\ inputOk \in BOOLEAN
    /\ inFile \in (IF inputOk THEN SeqsUpTo(Lines, MaxRows) ELSE {<<>>})
    /\ outFile = PriorOutput
    /\ outfile = "unopened"
    /\ rows = <<>>
    /\ pc = "start"
    /\ idx = 0
    /\ console = <<>>
    /\ raw = <<>>
    /\ fixed = <<>>
    /\ refixed = <<>>
    /\ passes = 0

\* lines 8-10: open the input and read every row; open() raises when it cannot
ReadInput ==
    /\ pc = "start"
    /\ IF inputOk
       THEN /\ rows' = DictReader(inFile)
            /\ idx' = 1
            /\ pc' = "fix"
       ELSE /\ pc' = "failed"
            /\ UNCHANGED <<rows, idx>>
    /\ UNCHANGED <<inputOk, inFile, outFile, outfile, console>>
    /\ UNCHANGED normVars

\* lines 13-30: one turn of the for loop; None.strip() raises AttributeError
FixRow ==
    /\ pc = "fix"
    /\ idx <= Len(rows)
    /\ IF rows[idx]["photo_file"] = None
       THEN /\ pc' = "failed"
            /\ UNCHANGED <<rows, idx>>
       ELSE /\ rows' = [rows EXCEPT ![idx] = FixedRow(@)]
            /\ idx' = idx + 1
            /\ pc' = pc
    /\ UNCHANGED <<inputOk, inFile, outFile, outfile, console>>
    /\ UNCHANGED normVars

\* Mutant of OpenOutput: the output is opened while rows are still to be fixed
OpenOutputEarly ==
    /\ pc = "fix"
    /\ outFile' = EmptyFile
    /\ outfile' = "open"
    /\ pc' = "header"
    /\ UNCHANGED <<inputOk, inFile, rows, idx, console>>
    /\ UNCHANGED normVars

\* line 33: open(output_file, 'w') truncates the file
OpenOutput ==
    /\ pc = "fix"
    /\ idx > Len(rows)
    /\ outFile' = EmptyFile
    /\ outfile' = "open"
    /\ pc' = "header"
    /\ UNCHANGED <<inputOk, inFile, rows, idx, console>>
    /\ UNCHANGED normVars

\* line 37: writer.writeheader()
WriteHeader ==
    /\ pc = "header"
    /\ outFile' = [outFile EXCEPT !.header = fieldnames]
    /\ idx' = 1
    /\ pc' = "rows"
    /\ UNCHANGED <<inputOk, inFile, outfile, rows, console>>
    /\ UNCHANGED normVars

\* line 38: writer.writerows(rows), one row; a row with a key that is no
\* fieldname raises ValueError, and the with statement closes the file
WriteRow ==
    /\ pc = "rows"
    /\ idx <= Len(rows)
    /\ IF WrongFields(rows[idx]) # {}
       THEN /\ pc' = "failed"
            /\ outfile' = "closed"
            /\ UNCHANGED <<outFile, idx>>
       ELSE /\ outFile' = [outFile EXCEPT !.records = Append(@, DictToList(rows[idx]))]
            /\ idx' = idx + 1
            /\ UNCHANGED <<pc, outfile>>
    /\ UNCHANGED <<inputOk, inFile, rows, console>>
    /\ UNCHANGED normVars

\* the end of the with statement of line 33
CloseOutput ==
    /\ pc = "rows"
    /\ idx > Len(rows)
    /\ outfile' = "closed"
    /\ pc' = "print1"
    /\ UNCHANGED <<inputOk, inFile, outFile, rows, idx, console>>
    /\ UNCHANGED normVars

\* line 40
PrintSaved ==
    /\ pc = "print1"
    /\ console' = Append(console, [msg |-> "Fixed CSV saved to"])
    /\ pc' = "print2"
    /\ UNCHANGED <<inputOk, inFile, outFile, outfile, rows, idx>>
    /\ UNCHANGED normVars

\* line 41
PrintCount ==
    /\ pc = "print2"
    /\ console' = Append(console, [msg |-> "Processed", n |-> Len(rows)])
    /\ pc' = "done"
    /\ UNCHANGED <<inputOk, inFile, outFile, outfile, rows, idx>>
    /\ UNCHANGED normVars

Next ==
    \/ ReadInput
    \/ FixRow
    \/ OpenOutput
    \/ WriteHeader
    \/ WriteRow
    \/ CloseOutput
    \/ PrintSaved
    \/ PrintCount

Spec == Init /\ [][Next]_vars

-----------------------------------------------------------------------------
(* The normalizer alone: the raw values it is run on are a core wrapped in  *)
(* leading and trailing whitespace and quote characters.                   *)

WrapChars == {SP, SQ, DQ}
CorePieces == {MARKER, FOO, JANE, <<LF>>}

Wraps == SeqsUpTo(WrapChars, MaxWrap)
Cores == {Flatten(ps) : ps \in SeqsUpTo(CorePieces, MaxCore)}
RawValues == {pre \o core \o suf : pre \in Wraps, core \in Cores, suf \in Wraps}

NormInit ==
    /\ raw \in RawValues
    /\ fixed = <<>>
    /\ refixed = <<>>
    /\ passes = 0
    /\ inputOk = TRUE
    /\ inFile = <<>>
    /\ outFile = PriorOutput
    /\ outfile = "unopened"
    /\ rows = <<>>
    /\ pc = "start"
    /\ idx = 0
    /\ console = <<>>

\* the loop body runs on the raw value
FixOnce ==
    /\ passes = 0
    /\ fixed' = NormalizePhoto(raw)
    /\ passes' = 1
    /\ UNCHANGED <<raw, refixed>>
    /\ UNCHANGED pipeVars

\* the loop body runs on its own result (the script run on its own output)
FixAgain ==
    /\ passes = 1
    /\ refixed' = NormalizePhoto(fixed)
    /\ passes' = 2
    /\ UNCHANGED <<raw, fixed>>
    /\ UNCHANGED pipeVars

NormNext == FixOnce \/ FixAgain

SpecNorm == NormInit /\ [][NormNext]_vars

-----------------------------------------------------------------------------
(* Claims about the normalizer, checked under SpecNorm *)

\* what follows the first occurrence of '/photos/' in s, to the end of s
AfterFirstMarker(s) ==
    LET first == SetMin({i \in 1..Len(s) : OccursAt(s, MARKER, i)})
    IN  SubSeq(s, first + Len(MARKER), Len(s))

HasLF(s) == \E k \in 1..Len(s) : s[k] = LF

\* C1 as stated: whenever the trimmed value contains '/photos/', the result is
\* '/photos/' followed by what follows the first '/photos/', also when nothing
\* follows it
C1_AfterFirstMarkerAlways ==
    passes >= 1 =>
        \A t \in {Trimmed(raw)} :
            Contains(t, MARKER) => fixed = MARKER \o AfterFirstMarker(t)

\* C1 amended: when the trimmed value contains '/photos/' and no line feed
\* follows the first '/photos/', the result is '/photos/' followed by what
\* follows the first '/photos/' if that is not empty, and the empty text if
\* nothing follows it
C1_AfterFirstMarker ==
    passes >= 1 =>
        \A t \in {Trimmed(raw)} :
            Contains(t, MARKER) =>
                \A rest \in {AfterFirstMarker(t)} :
                    ~HasLF(rest) =>
                        fixed = (IF rest = <<>> THEN <<>> ELSE MARKER \o rest)

\* C1's case: a value with text before the first '/photos/' and text after it
\* has been normalized, and the text before it was cut off
C1_Witness ==
    /\ passes >= 1
    /\ \E t \in {Trimmed(raw)} :
           /\ Contains(t, MARKER)
           /\ ~OccursAt(t, MARKER, 1)
           /\ AfterFirstMarker(t) = FOO
           /\ fixed = MARKER \o FOO

\* C2 as stated: a value whose trimmed form is empty is written as the empty
\* text
C2_EmptyTrimmedGivesEmpty ==
    (passes >= 1 /\ Trimmed(raw) = <<>>) => fixed = <<>>

\* C3 as stated: normalizing the result of the normalizer changes nothing
C3_Idempotent ==
    passes = 2 => refixed = fixed

\* the path '/photos/foo/bar.jpg' in leading and trailing whitespace and quotes
WrappedFoo == {pre \o MARKER \o FOO \o suf : pre \in Wraps, suf \in Wraps}

\* C4 as stated: '/photos/foo/bar.jpg' wrapped in any whitespace and quote
\* characters is normalized to exactly '/photos/foo/bar.jpg'
C4_WrappedPathExact ==
    (passes >= 1 /\ raw \in WrappedFoo) => fixed = MARKER \o FOO

\* C5: a value whose trimmed form is not empty and does not contain '/photos/'
\* is normalized to the empty text
C5_UnrecognizedCleared ==
    passes >= 1 =>
        \A t \in {Trimmed(raw)} :
            (t # <<>> /\ ~Contains(t, MARKER)) => fixed = <<>>

\* C5's case: 'photos/jane.png' in quotes has been normalized
C5_Witness ==
    /\ passes >= 1
    /\ raw # JANE
    /\ Trimmed(raw) = JANE
    /\ fixed = <<>>

-----------------------------------------------------------------------------
(* Claims about the pipeline, checked under Spec *)

\* the records of the input file: its lines that have a field
InputRecords == SelectSeq(inFile, LAMBDA l : l # <<>>)

\* the record the output is to hold for an input record of NumFields fields
ExpectedRecord(l) == [l EXCEPT ![FieldPos("photo_file")] = NormalizePhoto(@)]

\* C6: when the run has completed, the output holds as many records as the
\* input, in the input's order, and the count printed is that number
C6_RowCount ==
    pc = "done" =>
        /\ Len(outFile.records) = Len(InputRecords)
        /\ \A k \in 1..Len(InputRecords) :
               outFile.records[k] = ExpectedRecord(InputRecords[k])
        /\ Len(console) = 2
        /\ console[2] = [msg |-> "Processed", n |-> Len(InputRecords)]

\* C6's case: a run over two different records has completed
C6_Witness ==
    /\ pc = "done"
    /\ Len(outFile.records) >= 2
    /\ outFile.records[1] # outFile.records[2]

\* C7: every field but photo_file of every row in memory and of every record
\* written equals the field read from the input
C7_OtherFieldsKept ==
    /\ pc # "start" =>
           \A k \in 1..Len(rows) :
               \A f \in 1..NumFields :
                   (f # FieldPos("photo_file") /\ f <= Len(InputRecords[k]))
                       => rows[k][fieldnames[f]] = InputRecords[k][f]
    /\ outfile # "unopened" =>
           \A k \in 1..Len(outFile.records) :
               \A f \in 1..NumFields :
                   f # FieldPos("photo_file")
                       => outFile.records[k][f] = InputRecords[k][f]

\* C7's case: a record has been written whose photo_file was rewritten
C7_Witness ==
    /\ outfile = "closed"
    /\ \E k \in 1..Len(outFile.records) :
           /\ outFile.records[k][FieldPos("photo_file")]
                  # InputRecords[k][FieldPos("photo_file")]
           /\ outFile.records[k][1] = InputRecords[k][1]

\* C8 as stated: a run that ends with a fatal error leaves the output file as
\* it was before the run
C8_AllOrNothing ==
    pc = "failed" => outFile = PriorOutput

\* C9 as stated: a row whose number of fields differs from the header's makes
\* the run fail: no status line is printed and the run does not complete
C9_WrongColumnCountFatal ==
    (\E k \in 1..Len(inFile) : Len(inFile[k]) # NumFields)
        => (console = <<>> /\ pc \notin {"print1", "print2", "done"})

\* a row that has fields, but not as many as the header
Malformed == \E k \in 1..Len(inFile) : Len(inFile[k]) \notin {0, NumFields}

\* C9 amended: a row with at least one field whose number of fields differs
\* from the header's stops the run with a fatal error: neither loop gets past
\* such a row (the for loop stops at a row with too few fields, writerows at a
\* row with too many), no status line is printed, the run does not complete
\* and no such row is written as a record; a row without any field (a blank
\* line) is skipped and does not stop the run
C9_MalformedRowFatal ==
    /\ Malformed => (console = <<>> /\ pc \notin {"print1", "print2", "done"})
    /\ pc = "fix" =>
           \A k \in 1..(idx - 1) : Len(InputRecords[k]) >= NumFields
    /\ pc = "rows" =>
           \A k \in 1..(idx - 1) : Len(InputRecords[k]) = NumFields
    /\ outfile # "unopened" =>
           \A k \in 1..Len(outFile.records) : Len(InputRecords[k]) = NumFields
    /\ pc = "failed" => (~inputOk \/ Malformed)

\* C9's case: a run over a good row and then a row with one field too many has
\* failed while writing
C9_Witness ==
    /\ pc = "failed"
    /\ outfile = "closed"
    /\ Len(outFile.records) = 1
    /\ \E k \in 1..Len(inFile) : Len(inFile[k]) > NumFields

\* C10: the output is untouched until every row has been read and fixed, and
\* nothing is printed until the header and every row have been written and the
\* output is closed
C10_PhasesOrdered ==
    /\ outfile = "unopened" => outFile = PriorOutput
    /\ outfile # "unopened" =>
           /\ pc \notin {"start", "fix"}
           /\ Len(rows) = Len(InputRecords)
           /\ \A k \in 1..Len(rows) :
                  /\ Len(InputRecords[k]) >= NumFields
                  /\ rows[k]["photo_file"]
                         = NormalizePhoto(InputRecords[k][FieldPos("photo_file")])
    /\ console # <<>> =>
           /\ outfile = "closed"
           /\ outFile.header = fieldnames
           /\ Len(outFile.records) = Len(rows)
    /\ pc = "done" => Len(console) = 2

\* C10's case: the first status line has been printed after two rows, one of
\* them rewritten, were written
C10_Witness ==
    /\ pc = "print2"
    /\ console # <<>>
    /\ Len(rows) >= 2
    /\ \E k \in 1..Len(rows) :
           rows[k]["photo_file"] # InputRecords[k][FieldPos("photo_file")]

====
